---- MODULE Spec2Model ----
(***************************************************************************)
(* A model of the run-time parameter system of opm-simulators              *)
(* (opm/models/utils/parametersystem.hpp and parametersystem.cpp):         *)
(* the registry of parameters, its open/closed life cycle, the typed       *)
(* retrieval of values and the two front ends that fill the value store,   *)
(* the command line and the INI-style parameter file.                      *)
(*                                                                         *)
(* Text is modelled as a sequence of one-character strings, so that the    *)
(* lexer and the name transformation work character by character as the    *)
(* C++ code does.                                                          *)
(***************************************************************************)
EXTENDS Integers, Sequences, FiniteSets, TLC

(***************************************************************************)
(* Characters (<cctype> in the "C" locale)                                 *)
(***************************************************************************)
LowerSeq ==
    <<"a","b","c","d","e","f","g","h","i","j","k","l","m",
      "n","o","p","q","r","s","t","u","v","w","x","y","z">>

UpperSeq ==
    <<"A","B","C","D","E","F","G","H","I","J","K","L","M",
      "N","O","P","Q","R","S","T","U","V","W","X","Y","Z">>

DigitSeq == <<"0","1","2","3","4","5","6","7","8","9">>

LowerSet == {LowerSeq[i] : i \in 1..Len(LowerSeq)}

UpperSet == {UpperSeq[i] : i \in 1..Len(UpperSeq)}

DigitSet == {DigitSeq[i] : i \in 1..Len(DigitSeq)}

isspace(c) == c \in {" ", "\t", "\n", "\r", "\f"}

isalpha(c) == c \in LowerSet \cup UpperSet

isupper(c) == c \in UpperSet

isdigit(c) == c \in DigitSet

isalnum(c) == isalpha(c) \/ isdigit(c)

toupper(c) ==
    IF c \in LowerSet
    THEN UpperSeq[CHOOSE i \in 1..Len(LowerSeq) : LowerSeq[i] = c]
    ELSE c

tolower(c) ==
    IF c \in UpperSet
    THEN LowerSeq[CHOOSE i \in 1..Len(UpperSeq) : UpperSeq[i] = c]
    ELSE c

(* s.substr(pos), for pos <= s.size(); pos is 0-based as in C++ *)
substr(s, pos) == SubSeq(s, pos + 1, Len(s))

(* s.substr(pos, n), for pos + n <= s.size() *)
substrN(s, pos, n) == SubSeq(s, pos + 1, pos + n)

(***************************************************************************)
(* The key/value lexer (anonymous namespace of parametersystem.cpp)        *)
(***************************************************************************)

(* the loop conditions of the three scanning loops *)
stops(kind, c) ==
    CASE kind = "notSpace"      -> ~isspace(c)
      [] kind = "space"         -> isspace(c)
      [] kind = "spaceOrEquals" -> isspace(c) \/ c = "="

(* the index at which `for (i = 0; i < s.size(); ++i) if (stops(s[i])) break;` ends *)
RECURSIVE scanFrom(_, _, _)
scanFrom(s, i, kind) ==
    IF i < Len(s) /\ ~stops(kind, s[i + 1]) THEN scanFrom(s, i + 1, kind) ELSE i

removeLeadingSpace(s) == substr(s, scanFrom(s, 0, "notSpace"))

(* parseKey returns the key and leaves the rest of the line in s *)
parseKey(s) ==
    LET i == scanFrom(s, 0, "spaceOrEquals")
    IN  [ret |-> substrN(s, 0, i), s |-> substr(s, i)]

parseUnquotedValue(s) ==
    LET i == scanFrom(s, 0, "space")
    IN  [err |-> "", ret |-> substrN(s, 0, i), s |-> substr(s, i)]

(* the loop of parseQuotedValue from index i (0-based) with the result so far *)
RECURSIVE parseQuotedLoop(_, _, _)
parseQuotedLoop(s, i, result) ==
    IF i >= Len(s)
    THEN \* no closing quote: s.substr(i+1) with i+1 > s.size() throws std::out_of_range
         [err |-> "OutOfRange", ret |-> <<>>, s |-> s]
    ELSE IF s[i + 1] = "\\"
    THEN IF Len(s) <= i + 1
         THEN [err |-> "UnexpectedEnd", ret |-> <<>>, s |-> s]
         ELSE LET e == s[i + 2]
              IN  IF e = "n" THEN parseQuotedLoop(s, i + 2, Append(result, "\n"))
                  ELSE IF e = "r" THEN parseQuotedLoop(s, i + 2, Append(result, "\r"))
                  ELSE IF e = "t" THEN parseQuotedLoop(s, i + 2, Append(result, "\t"))
                  ELSE IF e = "\"" THEN parseQuotedLoop(s, i + 2, Append(result, "\""))
                  ELSE IF e = "\\" THEN parseQuotedLoop(s, i + 2, Append(result, "\\"))
                  ELSE [err |-> "UnknownEscape", ret |-> <<>>, s |-> s]
    ELSE IF s[i + 1] = "\""
    THEN [err |-> "", ret |-> result, s |-> substr(s, i + 1)]
    ELSE parseQuotedLoop(s, i + 1, Append(result, s[i + 1]))

parseQuotedValue(s) ==
    IF s = <<>> \/ s[1] # "\""
    THEN [err |-> "ExpectedQuote", ret |-> <<>>, s |-> s]
    ELSE parseQuotedLoop(s, 1, <<>>)

(***************************************************************************)
(* The name transformer                                                    *)
(***************************************************************************)
RECURSIVE transformKeyLoop(_, _, _)
transformKeyLoop(s, i, result) ==
    IF i >= Len(s)
    THEN [err |-> "", val |-> result]
    ELSE IF s[i + 1] = "-"
    THEN IF Len(s) <= i + 1 \/ ~isalpha(s[i + 2])
         THEN [err |-> "InvalidName", val |-> <<>>]
         ELSE transformKeyLoop(s, i + 2, Append(result, toupper(s[i + 2])))
    ELSE IF ~isalnum(s[i + 1])
    THEN [err |-> "InvalidName", val |-> <<>>]
    ELSE transformKeyLoop(s, i + 1, Append(result, s[i + 1]))

(* a transformKey without the test of the first character *)
transformKey_AnyFirst(s, capitalizeFirstLetter) ==
    IF s = <<>>
    THEN [err |-> "InvalidName", val |-> <<>>]
    ELSE transformKeyLoop(s, 1,
            <<IF capitalizeFirstLetter THEN toupper(s[1]) ELSE s[1]>>)

transformKey(s, capitalizeFirstLetter) ==
    IF s = <<>>
    THEN [err |-> "InvalidName", val |-> <<>>]
    ELSE IF ~isalpha(s[1])
    THEN [err |-> "InvalidName", val |-> <<>>]
    ELSE transformKeyLoop(s, 1,
            <<IF capitalizeFirstLetter THEN toupper(s[1]) ELSE s[1]>>)

(***************************************************************************)
(* Typed values and their text form.  A typed value is the record          *)
(* [i |-> integer part, s |-> text part]: an int or an (integer-valued)    *)
(* floating-point number n is [i |-> n, s |-> <<>>], a bool is 1 or 0 in   *)
(* i, a string is [i |-> 0, s |-> text].                                   *)
(***************************************************************************)
IntV(n) == [i |-> n, s |-> <<>>]

BoolV(b) == [i |-> IF b THEN 1 ELSE 0, s |-> <<>>]

StrV(t) == [i |-> 0, s |-> t]

RECURSIVE Pow10(_)
Pow10(n) == IF n = 0 THEN 1 ELSE 10 * Pow10(n - 1)

RECURSIVE NumDigits(_)
NumDigits(n) == IF n < 10 THEN 1 ELSE 1 + NumDigits(n \div 10)

(* the decimal digits of a natural number *)
RECURSIVE NatToText(_)
NatToText(n) ==
    IF n < 10 THEN <<DigitSeq[n + 1]>>
    ELSE Append(NatToText(n \div 10), DigitSeq[(n % 10) + 1])

(* operator<<(std::ostream&, int) *)
IntToText(n) == IF n < 0 THEN <<"-">> \o NatToText(0 - n) ELSE NatToText(n)

RECURSIVE StripTrailingZeros(_)
StripTrailingZeros(t) ==
    IF t # <<>> /\ t[Len(t)] = "0" THEN StripTrailingZeros(SubSeq(t, 1, Len(t) - 1)) ELSE t

(* the precision of a default-constructed std::ostringstream *)
StreamPrecision == 6

(* the text of m * 10^x in scientific notation, m a number of StreamPrecision
   digits: trailing zeros dropped, the exponent with at least two digits *)
SciText(ds, x) ==
    <<Head(ds)>>
    \o (IF StripTrailingZeros(Tail(ds)) = <<>> THEN <<>>
        ELSE <<".">> \o StripTrailingZeros(Tail(ds)))
    \o <<"e", "+">> \o (IF x < 10 THEN <<"0">> \o NatToText(x) ELSE NatToText(x))

(* the mantissa m0 rounded to StreamPrecision digits may have one digit more *)
SciCarry(m0, x0) ==
    IF m0 = Pow10(StreamPrecision)
    THEN SciText(NatToText(m0 \div 10), x0 + 1)
    ELSE SciText(NatToText(m0), x0)

(* round-half-even of q + r/scale *)
SciRound(q, r, scale, x0) ==
    SciCarry(IF (2 * r > scale) \/ (2 * r = scale /\ q % 2 = 1) THEN q + 1 ELSE q, x0)

SciScale(v, x0, scale) == SciRound(v \div scale, v % scale, scale, x0)

(* operator<<(std::ostream&, double) of a non-negative integer-valued number:
   %g with StreamPrecision significant digits, round-half-even, trailing zeros
   dropped, scientific notation once the exponent reaches the precision *)
DoubleToText(v) ==
    IF v < Pow10(StreamPrecision)
    THEN NatToText(v)
    ELSE SciScale(v, NumDigits(v) - 1, Pow10(NumDigits(v) - StreamPrecision))

(* the value of a text of digits *)
RECURSIVE TextToNat(_)
TextToNat(t) ==
    IF t = <<>> THEN 0
    ELSE 10 * TextToNat(SubSeq(t, 1, Len(t) - 1))
         + (CHOOSE d \in 0..9 : DigitSeq[d + 1] = t[Len(t)])

(* the length of the run of digits of t that starts at index i (0-based) *)
RECURSIVE DigitRun(_, _)
DigitRun(t, i) == IF i < Len(t) /\ isdigit(t[i + 1]) THEN 1 + DigitRun(t, i + 1) ELSE 0

(* the longest prefix of t that is an integer literal [-]digits:
   [ok, val, len], ok = FALSE when there is no digit *)
ScanIntFrom(t, st, n) ==
    [ok |-> n > 0,
     val |-> IF st = 1 THEN 0 - TextToNat(substrN(t, st, n)) ELSE TextToNat(substrN(t, st, n)),
     len |-> st + n]

ScanIntSign(t, st) == ScanIntFrom(t, st, DigitRun(t, st))

ScanInt(t) == ScanIntSign(t, IF t # <<>> /\ t[1] = "-" THEN 1 ELSE 0)

(* the longest prefix of t that is a floating-point literal
   digits[.digits][e[+]digits] with an integer value: [ok, val, len].
   mant is the number written by the digits before and after the point, n2
   the number of digits after the point, p the end of the mantissa, es the
   start of the exponent's digits and n3 their number. *)
ScanDoubleValue(ok, mant, n2, ex, len) ==
    [ok |-> ok,
     val |-> IF ex >= n2 THEN mant * Pow10(ex - n2) ELSE mant \div Pow10(n2 - ex),
     len |-> len]

ScanDoubleExp(t, ok, mant, n2, p, es, n3) ==
    IF n3 > 0
    THEN ScanDoubleValue(ok, mant, n2, TextToNat(substrN(t, es, n3)), es + n3)
    ELSE ScanDoubleValue(ok, mant, n2, 0, p)

ScanDoubleE(t, ok, mant, n2, p, es) ==
    ScanDoubleExp(t, ok, mant, n2, p, es,
        IF ok /\ p < Len(t) /\ t[p + 1] \in {"e", "E"} THEN DigitRun(t, es) ELSE 0)

ScanDoubleMant(t, ok, mant, n2, p) ==
    ScanDoubleE(t, ok, mant, n2, p,
        IF p + 1 < Len(t) /\ t[p + 2] = "+" THEN p + 2 ELSE p + 1)

ScanDoubleFrac(t, n1, n2) ==
    ScanDoubleMant(t, n1 > 0, TextToNat(substrN(t, 0, n1) \o substrN(t, n1 + 1, n2)),
        n2, n1 + 1 + n2)

ScanDoubleInt(t, n1) ==
    IF n1 > 0 /\ n1 < Len(t) /\ t[n1 + 1] = "."
    THEN ScanDoubleFrac(t, n1, DigitRun(t, n1 + 1))
    ELSE ScanDoubleMant(t, n1 > 0, TextToNat(substrN(t, 0, n1)), 0, n1)

ScanDouble(t) == ScanDoubleInt(t, DigitRun(t, 0))

(***************************************************************************)
(* Param: a parameter struct of the program, [name, type, value], its      *)
(* value a typed value.  type is the class name of its value type.         *)
(***************************************************************************)

(* oss << value, as Register and SetDefault serialize a default *)
Serialize(type, v) ==
    CASE type = "int"    -> IntToText(v.i)
      [] type = "bool"   -> IF v.i = 1 THEN <<"1">> ELSE <<"0">>
      [] type = "double" -> DoubleToText(v.i)
      [] type = "string" -> v.s

(* Get's conversion of the registry entry's default text to ParamType, given
   what std::strtod and std::from_chars read from it; compiled is
   Param::value, which std::from_chars leaves alone when it fails *)
ParseDefaultWith(type, defVal, compiled, sd, si) ==
    CASE type = "string" -> StrV(defVal)
      [] type = "bool"   -> BoolV(defVal = <<"1">>)
      [] type = "double" -> IntV(IF sd.ok THEN sd.val ELSE 0)
      [] type = "int"    -> IF si.ok THEN IntV(si.val) ELSE compiled

ParseDefault(type, defVal, compiled) ==
    ParseDefaultWith(type, defVal, compiled, ScanDouble(defVal), ScanInt(defVal))

RECURSIVE LowerText(_)
LowerText(t) == IF t = <<>> THEN <<>> ELSE <<tolower(Head(t))>> \o LowerText(Tail(t))

(* a value of a numeric type: the whole text must be a literal of the type *)
WholeNumber(text, sc) ==
    IF sc.ok /\ sc.len = Len(text)
    THEN [err |-> "", val |-> IntV(sc.val)]
    ELSE [err |-> "ValueParseError", val |-> IntV(0)]

(* a value of type bool: yes, true, no, false in any case, or an integer *)
WholeBool(l, sc) ==
    IF l \in {<<"y","e","s">>, <<"t","r","u","e">>}
    THEN [err |-> "", val |-> BoolV(TRUE)]
    ELSE IF l \in {<<"n","o">>, <<"f","a","l","s","e">>}
    THEN [err |-> "", val |-> BoolV(FALSE)]
    ELSE IF sc.ok /\ sc.len = Len(l)
    THEN [err |-> "", val |-> BoolV(sc.val # 0)]
    ELSE [err |-> "ValueParseError", val |-> IntV(0)]

(* the typed lookup tree.get<ParamType>(key, default) of a key that is present *)
TreeGet(type, text) ==
    CASE type = "string" -> [err |-> "", val |-> StrV(text)]
      [] type = "int"    -> WholeNumber(text, ScanInt(text))
      [] type = "double" -> WholeNumber(text, ScanDouble(text))
      [] type = "bool"   -> WholeBool(LowerText(text), ScanInt(LowerText(text)))

(***************************************************************************)
(* The value store (MetaData::tree()): a map from key to text.  The keys   *)
(* that ingestion writes hold letters and digits only, so no key names a   *)
(* sub-tree.                                                               *)
(***************************************************************************)
hasKey(t, key) == key \in DOMAIN t

(* tree[key] = value *)
TreeSet(t, key, value) ==
    [k \in DOMAIN t \cup {key} |-> IF k = key THEN value ELSE t[k]]

EmptyTree == [k \in {} |-> <<>>]

(***************************************************************************)
(* parseParameterFile.  A file is the sequence of its lines.               *)
(***************************************************************************)

(* what follows the key on a line: the equals sign, the value, the trailing
   comment.  The three "Syntax error" exceptions are constructed but never
   thrown, so only substr and parseQuotedValue can fail here. *)
lineValue(afterKey) ==
    LET s1 == removeLeadingSpace(afterKey)
    IN  IF s1 = <<>>
        THEN \* curLine.substr(1) of an empty line throws std::out_of_range
             [err |-> "OutOfRange", value |-> <<>>]
        ELSE LET s2 == removeLeadingSpace(substr(s1, 1))
                 pv == IF s2 # <<>> /\ s2[1] = "\""
                       THEN parseQuotedValue(s2)
                       ELSE parseUnquotedValue(s2)
             IN  [err |-> pv.err, value |-> pv.ret]

fileWrites_KeepsPresent(overwrite, t, key) == ~hasKey(t, key)

fileWrites_Always(overwrite, t, key) == TRUE

(* the condition under which a line's value is written to the tree *)
fileWrites(overwrite, t, key) == overwrite \/ ~hasKey(t, key)

alreadySeen_Never(seenKeys, key) == FALSE

(* seenKeys.count(key) > 0, of the std::set that one call keeps *)
alreadySeen(seenKeys, key) == key \in seenKeys

(* the loop over the lines, from line n (1-based) on.  done is the sequence
   of the <<key, value>> entries of the lines that were processed without
   error.  The writes of the lines before a failing line stay. *)
RECURSIVE parseFileLoop(_, _, _, _, _, _)
parseFileLoop(lines, n, seenKeys, t, done, overwrite) ==
    IF n > Len(lines)
    THEN [err |-> "", line |-> 0, tree |-> t, done |-> done]
    ELSE LET curLine == removeLeadingSpace(lines[n])
         IN  IF curLine = <<>> \/ curLine[1] = "#" \/ curLine[1] = ";"
             THEN parseFileLoop(lines, n + 1, seenKeys, t, done, overwrite)
             ELSE LET pk == parseKey(curLine)
                      tk == transformKey(pk.ret, TRUE)
                      lv == lineValue(pk.s)
                  IN  IF tk.err # ""
                      THEN [err |-> tk.err, line |-> n, tree |-> t, done |-> done]
                      ELSE IF alreadySeen(seenKeys, tk.val)
                      THEN [err |-> "DuplicateKeyInFile", line |-> n, tree |-> t, done |-> done]
                      ELSE IF lv.err # ""
                      THEN [err |-> lv.err, line |-> n, tree |-> t, done |-> done]
                      ELSE parseFileLoop(lines, n + 1, seenKeys \cup {tk.val},
                              IF fileWrites(overwrite, t, tk.val)
                              THEN TreeSet(t, tk.val, lv.value) ELSE t,
                              Append(done, <<tk.val, lv.value>>), overwrite)

(***************************************************************************)
(* parseCommandLineOptions.  args is argv[1..argc-1].                      *)
(***************************************************************************)
HelpShort == <<"-", "h">>

HelpLong == <<"-", "-", "h", "e", "l", "p">>

HelpAll == <<"-", "-", "h", "e", "l", "p", "-", "a", "l", "l">>

(* a first loop that looks at one argument only *)
helpScan_FirstOnly(args, i) ==
    IF i > Len(args) THEN 0
    ELSE IF args[i] \in {HelpShort, HelpLong, HelpAll} THEN i
    ELSE 0

(* the first loop: the index of the first help argument, 0 when there is none *)
RECURSIVE helpScan(_, _)
helpScan(args, i) ==
    IF i > Len(args) THEN 0
    ELSE IF args[i] \in {HelpShort, HelpLong, HelpAll} THEN i
    ELSE helpScan(args, i + 1)

(* the default posArgCallback: handles nothing and reports the argument *)
noPositionalParameters_(arg) == [numHandled |-> 0, errorMsg |-> "IllegalParameter"]

(* the test that sends an argument to the positional handler *)
isPositional(arg) == Len(arg) < 4 \/ arg[1] # "-" \/ arg[2] # "-"

(* the second loop, from argument i on.  err is the message returned ("" on
   success); thrown tells that the call ended with an exception instead. *)
RECURSIVE parseArgsLoop(_, _, _, _, _)
parseArgsLoop(args, i, seenKeys, t, done) ==
    IF i > Len(args)
    THEN [err |-> "", thrown |-> FALSE, arg |-> 0, tree |-> t, done |-> done]
    ELSE IF isPositional(args[i])
    THEN \* numHandled < 1 with the default handler
         [err |-> noPositionalParameters_(args[i]).errorMsg, thrown |-> FALSE,
          arg |-> i, tree |-> t, done |-> done]
    ELSE IF ~isalpha(args[i][3])
    THEN [err |-> "NameNotALetter", thrown |-> FALSE, arg |-> i, tree |-> t, done |-> done]
    ELSE LET pk == parseKey(substr(args[i], 2))
             tk == transformKey(pk.ret, TRUE)
         IN  IF tk.err # ""
             THEN \* transformKey throws std::runtime_error, nothing catches it
                  [err |-> tk.err, thrown |-> TRUE, arg |-> i, tree |-> t, done |-> done]
             ELSE IF alreadySeen(seenKeys, tk.val)
             THEN [err |-> "DuplicateKey", thrown |-> FALSE, arg |-> i, tree |-> t, done |-> done]
             ELSE IF pk.s = <<>> \/ pk.s[1] # "="
             THEN [err |-> "MissingValue", thrown |-> FALSE, arg |-> i, tree |-> t, done |-> done]
             ELSE parseArgsLoop(args, i + 1, seenKeys \cup {tk.val},
                     TreeSet(t, tk.val, substr(pk.s, 1)),
                     Append(done, <<tk.val, substr(pk.s, 1)>>))

(* the whole function; helpPreamble tells whether the preamble is non-empty *)
parseArgs(args, helpPreamble, t) ==
    IF helpPreamble /\ helpScan(args, 1) # 0
    THEN [err |-> "HelpCalled", thrown |-> FALSE, arg |-> helpScan(args, 1),
          tree |-> t, done |-> <<>>]
    ELSE parseArgsLoop(args, 1, {}, t, <<>>)

(***************************************************************************)
(* The state: MetaData::Storage_ and what the last call returned           *)
(***************************************************************************)
VARIABLES
    registry,          \* std::map<std::string, ParamInfo>: name -> ParamInfo
    tree,              \* the value store: key -> text
    finalizers,        \* the pending validators: the Param of each ParamRegFinalizer_
    registrationOpen,  \* bool
    ret,               \* the last call: [op, arg, err, out]; err = "" when it succeeded
    cmdVal,            \* history: key -> the text the command line last supplied for it
    fileKeys,          \* history: the keys that a parameter file has supplied
    fileAfterCmd,      \* history: key -> the text that a parameter file read with
                       \* overwrite = true supplied after the command line last did
    curDefault,        \* history: name -> the value of the registered parameter's
                       \* struct, or the one the last SetDefault of that name passed
    lateKeys           \* history: the keys that ingestion has supplied while
                       \* registration was closed

vars == <<registry, tree, finalizers, registrationOpen, ret,
          cmdVal, fileKeys, fileAfterCmd, curDefault, lateKeys>>

storage == <<registry, tree, finalizers, registrationOpen>>

history == <<cmdVal, fileKeys, fileAfterCmd, curDefault, lateKeys>>

supplied == <<cmdVal, fileKeys, fileAfterCmd, lateKeys>>

(* ret.arg and ret.out have one shape for all calls; a call fills the fields it has *)
NoParam == [name |-> <<>>, type |-> "", value |-> IntV(0)]

NoArg == [p |-> NoParam, usage |-> "", e |-> FALSE, v |-> IntV(0), text |-> <<>>, flag |-> FALSE,
          indentWidth |-> 0, maxWidth |-> 0]

NoOut == [val |-> IntV(0), flag |-> FALSE, n |-> 0, used |-> <<>>, unused |-> <<>>,
          rest |-> <<>>, lines |-> <<>>]

Returned(op, arg, err, out) == [op |-> op, arg |-> arg, err |-> err, out |-> out]

(* MetaData::Storage_::Storage_() *)
Init ==
    /\ registry = [n \in {} |-> <<>>]
    /\ tree = EmptyTree
    /\ finalizers = <<>>
    /\ registrationOpen = TRUE
    /\ ret = Returned("start", NoArg, "", NoOut)
    /\ cmdVal = EmptyTree
    /\ fileKeys = {}
    /\ fileAfterCmd = EmptyTree
    /\ curDefault = [n \in {} |-> IntV(0)]
    /\ lateKeys = {}

(***************************************************************************)
(* ParamInfo                                                               *)
(***************************************************************************)

(* a value-initialized ParamInfo, as std::map::operator[] inserts it *)
EmptyParamInfo ==
    [paramName |-> <<>>, paramTypeName |-> "", typeTagName |-> "",
     usageString |-> "", defaultValue |-> <<>>, isHidden |-> FALSE]

(* a comparison that forgets the usage string *)
ParamInfoEq_NoUsage(a, b) ==
    /\ b.paramName = a.paramName
    /\ b.paramTypeName = a.paramTypeName
    /\ b.typeTagName = a.typeTagName

(* a comparison that takes the default value into account *)
ParamInfoEq_WithDefault(a, b) ==
    /\ b.paramName = a.paramName
    /\ b.paramTypeName = a.paramTypeName
    /\ b.typeTagName = a.typeTagName
    /\ b.usageString = a.usageString
    /\ b.defaultValue = a.defaultValue

(* ParamInfo::operator== *)
ParamInfoEq(a, b) ==
    /\ b.paramName = a.paramName
    /\ b.paramTypeName = a.paramTypeName
    /\ b.typeTagName = a.typeTagName
    /\ b.usageString = a.usageString

isRegistered(name) == name \in DOMAIN registry

RegistrySet(reg, name, info) ==
    [n \in DOMAIN reg \cup {name} |-> IF n = name THEN info ELSE reg[n]]

(***************************************************************************)
(* Registration                                                            *)
(***************************************************************************)

(* the number of finalizers the model lets the list hold *)
MaxFinalizers == 2

(* the ParamInfo that Register builds *)
NewParamInfo(p, usageString) ==
    [paramName |-> p.name, paramTypeName |-> p.type, typeTagName |-> "",
     usageString |-> usageString, defaultValue |-> Serialize(p.type, p.value),
     isHidden |-> FALSE]

(* Register and Hide without their check *)
registrationClosed_Never == FALSE

(* the check that opens Register and Hide *)
registrationClosed == ~registrationOpen

Register(p, usageString) ==
    LET paramInfo == NewParamInfo(p, usageString)
        arg == [NoArg EXCEPT !.p = p, !.usage = usageString]
    IN  IF registrationClosed
        THEN /\ ret' = Returned("Register", arg, "RegistrationClosed", NoOut)
             /\ UNCHANGED <<storage, history>>
        ELSE /\ Len(finalizers) < MaxFinalizers
             /\ finalizers' = Append(finalizers, p)
             /\ IF isRegistered(p.name)
                THEN /\ ret' = Returned("Register", arg,
                                   IF ParamInfoEq(registry[p.name], paramInfo)
                                   THEN "" ELSE "ConflictingRegistration", NoOut)
                     /\ UNCHANGED <<registry, curDefault>>
                ELSE /\ registry' = RegistrySet(registry, p.name, paramInfo)
                     /\ curDefault' = RegistrySet(curDefault, p.name, p.value)
                     /\ ret' = Returned("Register", arg, "", NoOut)
             /\ UNCHANGED <<tree, registrationOpen, supplied>>

Hide(p) ==
    IF registrationClosed
    THEN /\ ret' = Returned("Hide", [NoArg EXCEPT !.p = p], "RegistrationClosed", NoOut)
         /\ UNCHANGED <<storage, history>>
    ELSE IF ~isRegistered(p.name)
    THEN /\ ret' = Returned("Hide", [NoArg EXCEPT !.p = p], "UnknownParameter", NoOut)
         /\ UNCHANGED <<storage, history>>
    ELSE /\ registry' = [registry EXCEPT ![p.name].isHidden = TRUE]
         /\ ret' = Returned("Hide", [NoArg EXCEPT !.p = p], "", NoOut)
         /\ UNCHANGED <<tree, finalizers, registrationOpen, history>>

(* a clear() that forgets the flag *)
reset_KeepsFlag ==
    /\ tree' = EmptyTree
    /\ finalizers' = <<>>
    /\ registrationOpen' = registrationOpen
    /\ registry' = [n \in {} |-> <<>>]
    /\ ret' = Returned("reset", NoArg, "", NoOut)
    /\ cmdVal' = EmptyTree
    /\ fileKeys' = {}
    /\ fileAfterCmd' = EmptyTree
    /\ curDefault' = [n \in {} |-> IntV(0)]
    /\ lateKeys' = {}

(* MetaData::clear() *)
reset ==
    /\ tree' = EmptyTree
    /\ finalizers' = <<>>
    /\ registrationOpen' = TRUE
    /\ registry' = [n \in {} |-> <<>>]
    /\ ret' = Returned("reset", NoArg, "", NoOut)
    /\ cmdVal' = EmptyTree
    /\ fileKeys' = {}
    /\ fileAfterCmd' = EmptyTree
    /\ curDefault' = [n \in {} |-> IntV(0)]
    /\ lateKeys' = {}

(***************************************************************************)
(* Resolution                                                              *)
(***************************************************************************)

(* Get and IsSet without the check of registrationOpen *)
accessError_NoOpenCheck(name, errorIfNotRegistered) ==
    IF errorIfNotRegistered /\ ~isRegistered(name) THEN "UnknownParameter" ELSE ""

(* the checks that open Get and IsSet: the error they throw, "" when none *)
accessError(name, errorIfNotRegistered) ==
    IF errorIfNotRegistered /\ registrationOpen THEN "RegistrationOpen"
    ELSE IF errorIfNotRegistered /\ ~isRegistered(name) THEN "UnknownParameter"
    ELSE ""

(* the registry after MetaData::mutableRegistry()[paramName] *)
registryTouched(reg, name) ==
    IF name \in DOMAIN reg THEN reg ELSE RegistrySet(reg, name, EmptyParamInfo)

(* what Get computes once its checks have passed: [err, val] *)
GetValue(p, reg, t) ==
    LET defVal == registryTouched(reg, p.name)[p.name].defaultValue
        defaultValue == ParseDefault(p.type, defVal, p.value)
    IN  IF hasKey(t, p.name)
        THEN TreeGet(p.type, t[p.name])
        ELSE [err |-> "", val |-> defaultValue]

Get(p, errorIfNotRegistered) ==
    LET arg == [NoArg EXCEPT !.p = p, !.e = errorIfNotRegistered]
        chk == accessError(p.name, errorIfNotRegistered)
    IN  IF chk # ""
        THEN /\ ret' = Returned("Get", arg, chk, NoOut)
             /\ UNCHANGED <<storage, history>>
        ELSE \E g \in {GetValue(p, registry, tree)} :
             /\ registry' = registryTouched(registry, p.name)
             /\ ret' = Returned("Get", arg, g.err, IF g.err = "" THEN [NoOut EXCEPT !.val = g.val] ELSE NoOut)
             /\ UNCHANGED <<tree, finalizers, registrationOpen, history>>

IsSet(p, errorIfNotRegistered) ==
    LET arg == [NoArg EXCEPT !.p = p, !.e = errorIfNotRegistered]
        chk == accessError(p.name, errorIfNotRegistered)
    IN  /\ ret' = Returned("IsSet", arg, chk,
                     IF chk = "" THEN [NoOut EXCEPT !.flag = hasKey(tree, p.name)] ELSE NoOut)
        /\ UNCHANGED <<storage, history>>

(* a SetDefault that stores the new default as a supplied value *)
SetDefault_WritesStore(p, new_value) ==
    LET arg == [NoArg EXCEPT !.p = p, !.v = new_value]
    IN  IF ~isRegistered(p.name)
        THEN /\ ret' = Returned("SetDefault", arg, "UnknownParameter", NoOut)
             /\ UNCHANGED <<storage, history>>
        ELSE /\ registry' = [registry EXCEPT
                                ![p.name].defaultValue = Serialize(p.type, new_value)]
             /\ tree' = TreeSet(tree, p.name, Serialize(p.type, new_value))
             /\ curDefault' = IF p.name \in DOMAIN curDefault
                              THEN [curDefault EXCEPT ![p.name] = new_value]
                              ELSE curDefault
             /\ ret' = Returned("SetDefault", arg, "", NoOut)
             /\ UNCHANGED <<finalizers, registrationOpen, supplied>>

SetDefault(p, new_value) ==
    LET arg == [NoArg EXCEPT !.p = p, !.v = new_value]
    IN  IF ~isRegistered(p.name)
        THEN /\ ret' = Returned("SetDefault", arg, "UnknownParameter", NoOut)
             /\ UNCHANGED <<storage, history>>
        ELSE /\ registry' = [registry EXCEPT
                                ![p.name].defaultValue = Serialize(p.type, new_value)]
             /\ curDefault' = IF p.name \in DOMAIN curDefault
                              THEN [curDefault EXCEPT ![p.name] = new_value]
                              ELSE curDefault
             /\ ret' = Returned("SetDefault", arg, "", NoOut)
             /\ UNCHANGED <<tree, finalizers, registrationOpen, supplied>>

(* the check that opens getLists *)
listsError == IF registrationOpen THEN "RegistrationOpen" ELSE ""

(* getFlattenedKeyList: every key of the tree once; the order of the list
   is one fixed order of the keys *)
RECURSIVE getFlattenedKeyList(_)
getFlattenedKeyList(keys) ==
    IF keys = {} THEN <<>>
    ELSE <<CHOOSE k \in keys : TRUE>>
            \o getFlattenedKeyList(keys \ {CHOOSE k \in keys : TRUE})

keysFound_All(keyList, wanted) == keyList

keysFound_None(keyList, wanted) == <<>>

(* the keys of a list that are in the registry (wanted) or are not *)
keysFound(keyList, wanted) ==
    SelectSeq(keyList, LAMBDA k : isRegistered(k) = wanted)

(* each key of a list with the text the tree holds for it *)
withValues(keyList) == [i \in 1..Len(keyList) |-> <<keyList[i], tree[keyList[i]]>>]

getLists ==
    \E allKeysList \in {getFlattenedKeyList(DOMAIN tree)} :
        /\ ret' = Returned("getLists", NoArg, listsError,
                     IF listsError = ""
                     THEN [NoOut EXCEPT
                             !.used = withValues(keysFound(allKeysList, TRUE)),
                             !.unused = withValues(keysFound(allKeysList, FALSE))]
                     ELSE NoOut)
        /\ UNCHANGED <<storage, history>>

(* the list that printUnused prints, one key="value" line per entry *)
unknownKeyList(keyList) == withValues(keysFound(keyList, FALSE))

(* printUnused: flag is the returned bool, unused the lines written after
   the heading; nothing is written when the flag is false *)
printUnused ==
    \E unknown \in {unknownKeyList(getFlattenedKeyList(DOMAIN tree))} :
        /\ ret' = Returned("printUnused", NoArg, "",
                     [NoOut EXCEPT !.flag = Len(unknown) > 0, !.unused = unknown])
        /\ UNCHANGED <<storage, history>>

(***************************************************************************)
(* endRegistration                                                         *)
(***************************************************************************)

(* endRegistration without its check *)
alreadyClosed_Never == FALSE

(* the check that opens endRegistration *)
alreadyClosed == ~registrationOpen

retrieveAll_Skipped(fs, i, reg, t) == ""

(* the loop over the finalizers: the error of the first retrieve() that
   throws, "" when none does.  retrieve() is Get<Param>(true), called when
   registrationOpen is already false. *)
RECURSIVE retrieveAll(_, _, _, _)
retrieveAll(fs, i, reg, t) ==
    IF i > Len(fs) THEN ""
    ELSE IF fs[i].name \notin DOMAIN reg THEN "UnknownParameter"
    ELSE IF GetValue(fs[i], reg, t).err # "" THEN GetValue(fs[i], reg, t).err
    ELSE retrieveAll(fs, i + 1, reg, t)

endRegistration ==
    IF alreadyClosed
    THEN /\ ret' = Returned("endRegistration", NoArg, "AlreadyClosed", NoOut)
         /\ UNCHANGED <<storage, history>>
    ELSE \E e \in {retrieveAll(finalizers, 1, registry, tree)} :
             /\ registrationOpen' = FALSE
             /\ finalizers' = IF e = "" THEN <<>> ELSE finalizers
             /\ ret' = Returned("endRegistration", NoArg, e, NoOut)
             /\ UNCHANGED <<registry, tree, history>>

(***************************************************************************)
(* Ingestion                                                               *)
(***************************************************************************)

(* the history after a call has processed the entries of done *)
RECURSIVE cmdValAfter(_, _, _)
cmdValAfter(cv, done, i) ==
    IF i > Len(done) THEN cv
    ELSE cmdValAfter(TreeSet(cv, done[i][1], done[i][2]), done, i + 1)

doneKeys(done) == {done[i][1] : i \in 1..Len(done)}

parseCommandLineOptions(args, helpPreamble) ==
    \E r \in {parseArgs(args, helpPreamble, tree)} :
        /\ tree' = r.tree
        /\ ret' = Returned("parseCommandLineOptions",
                     [NoArg EXCEPT !.text = args, !.flag = helpPreamble], r.err,
                     [NoOut EXCEPT !.flag = r.thrown, !.n = r.arg])
        /\ cmdVal' = cmdValAfter(cmdVal, r.done, 1)
        /\ fileAfterCmd' = [k \in DOMAIN fileAfterCmd \ doneKeys(r.done) |-> fileAfterCmd[k]]
        /\ lateKeys' = IF registrationOpen THEN lateKeys ELSE lateKeys \cup doneKeys(r.done)
        /\ UNCHANGED <<registry, finalizers, registrationOpen, fileKeys, curDefault>>

parseParameterFile(lines, overwrite) ==
    \E r \in {parseFileLoop(lines, 1, {}, tree, <<>>, overwrite)} :
    LET late == IF overwrite
                THEN {i \in 1..Len(r.done) : r.done[i][1] \in DOMAIN cmdVal} ELSE {}
    IN  /\ tree' = r.tree
        /\ ret' = Returned("parseParameterFile",
                     [NoArg EXCEPT !.text = lines, !.flag = overwrite], r.err,
                     [NoOut EXCEPT !.n = r.line])
        /\ fileKeys' = fileKeys \cup doneKeys(r.done)
        /\ fileAfterCmd' =
              [k \in DOMAIN fileAfterCmd \cup {r.done[i][1] : i \in late} |->
                  IF \E i \in late : r.done[i][1] = k
                  THEN r.done[CHOOSE i \in late : r.done[i][1] = k][2]
                  ELSE fileAfterCmd[k]]
        /\ lateKeys' = IF registrationOpen THEN lateKeys ELSE lateKeys \cup doneKeys(r.done)
        /\ UNCHANGED <<registry, finalizers, registrationOpen, cmdVal, curDefault>>

(***************************************************************************)
(* The life cycle of the registry: a program with three parameter structs, *)
(* two of them with the same name and different value types, and a command *)
(* line.                                                                   *)
(***************************************************************************)
SeqsUpTo(S, n) == UNION {[1..k -> S] : k \in 0..n}

ParamAB == [name |-> <<"A", "B">>, type |-> "int", value |-> IntV(5)]

ParamABbool == [name |-> <<"A", "B">>, type |-> "bool", value |-> BoolV(TRUE)]

ParamC == [name |-> <<"C">>, type |-> "string", value |-> StrV(<<"x">>)]

Params == {ParamAB, ParamABbool, ParamC}

Usages == {"u1", "u2"}

(* the value a SetDefault call of the program passes *)
NewValue(p) ==
    CASE p.type = "int"    -> IntV(6)
      [] p.type = "bool"   -> BoolV(FALSE)
      [] p.type = "double" -> IntV(7654321)
      [] p.type = "string" -> StrV(<<"y">>)

(* --a-b=7   --a-b=x *)
LifeTokens ==
    { <<"-", "-", "a", "-", "b", "=", "7">>,
      <<"-", "-", "a", "-", "b", "=", "x">> }

(* the number of arguments of a command line *)
MaxArgs == 1

Next ==
    \/ \E p \in Params, u \in Usages : Register(p, u)
    \/ \E p \in Params : Hide(p)
    \/ endRegistration
    \/ reset
    \/ \E p \in Params : Get(p, TRUE)
    \/ \E p \in Params : IsSet(p, TRUE)
    \/ getLists
    \/ \E args \in SeqsUpTo(LifeTokens, MaxArgs) : parseCommandLineOptions(args, FALSE)

Spec == Init /\ [][Next]_vars

(***************************************************************************)
(* Properties of the life cycle                                            *)
(***************************************************************************)

(* C1: while registration is open, Get<Param>(true), IsSet<Param>(true) and
   getLists fail with RegistrationOpen and return nothing, for every
   parameter, registered or not. *)
C1_OpenBlocksResolution ==
    (/\ registrationOpen
     /\ \/ ret.op \in {"Get", "IsSet"} /\ ret.arg.e
        \/ ret.op = "getLists")
    => (ret.err = "RegistrationOpen" /\ ret.out = NoOut)

(* a Get of a registered parameter with a supplied value has failed
   because registration is open *)
C1_Witness ==
    /\ registrationOpen
    /\ ret.op = "Get" /\ ret.arg.e
    /\ isRegistered(ret.arg.p.name) /\ hasKey(tree, ret.arg.p.name)
    /\ ret.err = "RegistrationOpen"

(* C2: while registration is closed, Register and Hide fail with
   RegistrationClosed and leave the registry, the pending validators, the
   value store and registrationOpen as they were. *)
C2_ClosedBlocksRegistration ==
    [][(~registrationOpen /\ ret'.op \in {"Register", "Hide"})
        => (ret'.err = "RegistrationClosed" /\ UNCHANGED storage)]_vars

(* Register of a parameter that is not in the registry has failed after
   registration was closed *)
C2_Witness ==
    /\ ~registrationOpen
    /\ ret.op = "Register" /\ ~isRegistered(ret.arg.p.name)
    /\ ret.err = "RegistrationClosed"

(* C3: an endRegistration call made while registration is closed fails with
   AlreadyClosed and changes nothing; a call that completes closes an open
   registration, and only reset() opens it again, so that endRegistration
   completes at most once between two reset() calls. *)
C3_EndRegistrationOnce ==
    [][/\ (~registrationOpen /\ ret'.op = "endRegistration")
            => (ret'.err = "AlreadyClosed" /\ UNCHANGED storage)
       /\ (ret'.op = "endRegistration" /\ ret'.err = "")
            => (registrationOpen /\ ~registrationOpen')
       /\ (~registrationOpen /\ registrationOpen') => ret'.op = "reset"]_vars

(* a second endRegistration has failed *)
C3_Witness ==
    /\ ret.op = "endRegistration" /\ ret.err = "AlreadyClosed"
    /\ ~registrationOpen /\ finalizers = <<>> /\ DOMAIN registry # {}

(* C4, as claimed: registrationOpen becomes false only through an
   endRegistration that succeeds, and an endRegistration that fails on a
   validator's value error leaves registration open and the validators
   queued. *)
C4_FailedEndRegistrationHasNoEffect ==
    [][/\ (registrationOpen /\ ~registrationOpen')
            => (ret'.op = "endRegistration" /\ ret'.err = "")
       /\ (ret'.op = "endRegistration" /\ ret'.err = "ValueParseError")
            => UNCHANGED storage]_vars

(* C5: while registration is open, Register of a name that is in the
   registry leaves the registry as it is; it succeeds when name, type name,
   type tag and usage string equal the stored entry's and fails with
   ConflictingRegistration when one of them differs. *)
C5_RepeatedRegister ==
    [][(registrationOpen /\ ret'.op = "Register" /\ isRegistered(ret'.arg.p.name))
        => LET old == registry[ret'.arg.p.name]
               same == /\ old.paramName = ret'.arg.p.name
                       /\ old.paramTypeName = ret'.arg.p.type
                       /\ old.typeTagName = ""
                       /\ old.usageString = ret'.arg.usage
           IN  /\ registry' = registry
               /\ ret'.err = IF same THEN "" ELSE "ConflictingRegistration"]_vars

(* a parameter struct with the name and the usage string of a registered one
   and another value type has been refused *)
C5_Witness ==
    /\ ret.op = "Register" /\ ret.err = "ConflictingRegistration"
    /\ isRegistered(ret.arg.p.name)
    /\ registry[ret.arg.p.name].usageString = ret.arg.usage
    /\ registry[ret.arg.p.name].paramTypeName # ret.arg.p.type

(***************************************************************************)
(* Retrieval: a program with an int, a floating-point, a string and a bool *)
(* parameter, which may change their defaults before and after             *)
(* endRegistration.                                                        *)
(***************************************************************************)
ParamD == [name |-> <<"D">>, type |-> "double", value |-> IntV(1234567)]

ParamE == [name |-> <<"E">>, type |-> "bool", value |-> BoolV(TRUE)]

GetParams == {ParamAB, ParamD, ParamC, ParamE}

(* --a-b=7   --a-b=x   --d=8 *)
GetTokens ==
    { <<"-", "-", "a", "-", "b", "=", "7">>,
      <<"-", "-", "a", "-", "b", "=", "x">>,
      <<"-", "-", "d", "=", "8">> }

NextGet ==
    \/ \E p \in GetParams : Register(p, "u1")
    \/ endRegistration
    \/ \E p \in GetParams : Get(p, TRUE)
    \/ \E p \in GetParams : SetDefault(p, NewValue(p))
    \/ \E args \in SeqsUpTo(GetTokens, MaxArgs) : parseCommandLineOptions(args, FALSE)

SpecGet == Init /\ [][NextGet]_vars

(* the typed value that a stored text of digits, or a stored string, stands for *)
StoredValue(type, text) ==
    IF type = "string" THEN StrV(text) ELSE IntV(TextToNat(text))

IsDigits(text) == text # <<>> /\ \A i \in 1..Len(text) : isdigit(text[i])

(* a Get<Param>(true) after endRegistration of a parameter that is registered
   with the type of Param *)
GotRegistered ==
    /\ ret.op = "Get" /\ ret.arg.e /\ ~registrationOpen
    /\ ret.arg.p.name \in DOMAIN curDefault
    /\ registry[ret.arg.p.name].paramTypeName = ret.arg.p.type

(* what C6 says of such a Get *)
GotStoreOrDefault ==
    IF hasKey(tree, ret.arg.p.name)
    THEN (ret.arg.p.type = "string" \/ IsDigits(tree[ret.arg.p.name]))
            => /\ ret.err = ""
               /\ ret.out.val = StoredValue(ret.arg.p.type, tree[ret.arg.p.name])
    ELSE /\ ret.err = ""
         /\ ret.out.val = curDefault[ret.arg.p.name]

(* C6, as claimed: after endRegistration, Get<Param> of a registered
   parameter returns the value stored under its name when the key is in the
   value store, and otherwise the compiled default or the value of the most
   recent SetDefault<Param>, whether that ran before or after
   endRegistration. *)
C6_GetReturnsStoreOrDefault == GotRegistered => GotStoreOrDefault

(* C6 for the parameters that are not floating-point: there the claim holds *)
C6_ExactUnlessFloatingPoint ==
    (GotRegistered /\ ret.arg.p.type # "double") => GotStoreOrDefault

(***************************************************************************)
(* Ingestion: a program that reads parameter files and command lines in    *)
(* any order.                                                              *)
(***************************************************************************)
MaxFileLines == 2

MaxIngestArgs == 2

(* a-b=1   AB = 2 #c   c=3   #c *)
FileLines ==
    { <<"a", "-", "b", "=", "1">>,
      <<"A", "B", " ", "=", " ", "2", " ", "#", "c">>,
      <<"c", "=", "3">>,
      <<"#", "c">> }

(* --a-b=7   --AB=8 *)
IngestTokens ==
    { <<"-", "-", "a", "-", "b", "=", "7">>,
      <<"-", "-", "A", "B", "=", "8">> }

NextIngest ==
    \/ \E lines \in SeqsUpTo(FileLines, MaxFileLines), overwrite \in BOOLEAN :
          parseParameterFile(lines, overwrite)
    \/ \E args \in SeqsUpTo(IngestTokens, MaxIngestArgs) :
          parseCommandLineOptions(args, FALSE)

SpecIngest == Init /\ [][NextIngest]_vars

(* the keys that both the command line and a parameter file have supplied *)
suppliedByBoth == DOMAIN cmdVal \cap fileKeys

(* C7, as claimed: whenever a parameter file and the command line have both
   supplied a value for a key, the value store holds the command-line value,
   whichever of the two was parsed first. *)
C7_CommandLineWins ==
    \A k \in suppliedByBoth : hasKey(tree, k) /\ tree[k] = cmdVal[k]

(* C7, amended: the value store holds the command-line value unless a
   parameter file read with overwrite = true has supplied the key after the
   command line last did; then it holds that file's value. *)
C7_CommandLineWinsUnlessOverwritten ==
    \A k \in suppliedByBoth :
        /\ hasKey(tree, k)
        /\ tree[k] = IF hasKey(fileAfterCmd, k) THEN fileAfterCmd[k] ELSE cmdVal[k]

(* a file read with overwrite = false after the command line has supplied
   another value for a key of the command line, and the command line's value
   is in the store *)
C7_Witness ==
    /\ ret.op = "parseParameterFile" /\ ~ret.arg.flag /\ ret.err = ""
    /\ ret.arg.text = << <<"a", "-", "b", "=", "1">> >>
    /\ hasKey(cmdVal, <<"A", "B">>) /\ ~hasKey(fileAfterCmd, <<"A", "B">>)
    /\ tree[<<"A", "B">>] = cmdVal[<<"A", "B">>]

(* the <<key, value>> entries of a file whose lines all parse *)
FileEntries(lines) == parseFileLoop(lines, 1, {}, EmptyTree, <<>>, TRUE).done

entryWritten(t, e) == hasKey(t, e[1]) /\ t[e[1]] = e[2]

(* C8: a successful parseParameterFile with overwrite = false changes no
   value of a key that was in the value store and adds every other key of the
   file with the file's value; with overwrite = true every key of the file
   ends up with the file's value.  No other key appears. *)
C8_OverwriteFrame ==
    [][ (ret'.op = "parseParameterFile" /\ ret'.err = "") =>
          LET entries == FileEntries(ret'.arg.text)
              keys == doneKeys(entries)
          IN  /\ DOMAIN tree' = DOMAIN tree \cup keys
              /\ \A k \in DOMAIN tree \ keys : tree'[k] = tree[k]
              /\ IF ret'.arg.flag
                 THEN \A i \in 1..Len(entries) : entryWritten(tree', entries[i])
                 ELSE /\ \A k \in DOMAIN tree : tree'[k] = tree[k]
                      /\ \A i \in 1..Len(entries) :
                            ~hasKey(tree, entries[i][1]) => entryWritten(tree', entries[i])
      ]_vars

(* a file with a key that was in the store with another value, and a key that
   was not, has been read with overwrite = false *)
C8_Witness ==
    /\ ret.op = "parseParameterFile" /\ ~ret.arg.flag /\ ret.err = ""
    /\ ret.arg.text = << <<"a", "-", "b", "=", "1">>, <<"c", "=", "3">> >>
    /\ tree[<<"A", "B">>] = <<"2">>
    /\ tree[<<"C">>] = <<"3">>
    /\ ~hasKey(cmdVal, <<"A", "B">>)

(* a blank or comment line *)
skipped(line) ==
    removeLeadingSpace(line) = <<>> \/ removeLeadingSpace(line)[1] \in {"#", ";"}

(* the canonical key of a line of a file, and of a --key=value argument *)
lineKey(line) == transformKey(parseKey(removeLeadingSpace(line)).ret, TRUE)

argKey(arg) == transformKey(parseKey(substr(arg, 2)).ret, TRUE)

named(arg) == ~isPositional(arg) /\ isalpha(arg[3]) /\ argKey(arg).err = ""

(* line j repeats the canonical key of an earlier line of the same file *)
DupInFile(lines, j) ==
    /\ ~skipped(lines[j])
    /\ \E i \in 1..(j - 1) :
          /\ ~skipped(lines[i])
          /\ lineKey(lines[i]).err = ""
          /\ lineKey(lines[j]) = lineKey(lines[i])

(* argument j repeats the canonical key of an earlier argument of the same
   command line *)
DupInArgs(args, j) ==
    /\ named(args[j])
    /\ \E i \in 1..(j - 1) : named(args[i]) /\ argKey(args[j]) = argKey(args[i])

(* C9: a call of parseParameterFile fails with DuplicateKeyInFile exactly at
   a line whose canonical key an earlier line of the same file has, and a
   call of parseCommandLineOptions returns the duplicate-key message exactly
   at such an argument; a call with such an entry never succeeds, and it ends
   at that entry unless it failed before it.  What earlier calls supplied
   plays no part. *)
C9_DuplicateWithinOneCall ==
    /\ ret.op = "parseParameterFile" =>
          /\ ret.err = "DuplicateKeyInFile" => DupInFile(ret.arg.text, ret.out.n)
          /\ \A j \in 1..Len(ret.arg.text) :
                DupInFile(ret.arg.text, j) =>
                    /\ ret.err # "" /\ ret.out.n <= j
                    /\ ret.out.n = j => ret.err = "DuplicateKeyInFile"
    /\ (ret.op = "parseCommandLineOptions" /\ ret.err # "HelpCalled") =>
          /\ ret.err = "DuplicateKey" => DupInArgs(ret.arg.text, ret.out.n)
          /\ \A j \in 1..Len(ret.arg.text) :
                DupInArgs(ret.arg.text, j) =>
                    /\ ret.err # "" /\ ret.out.n <= j
                    /\ ret.out.n = j => ret.err = "DuplicateKey"

(* a file with the two spellings a-b and AB of one key has failed, after an
   earlier call had put that key into the store *)
C9_Witness ==
    /\ ret.op = "parseParameterFile" /\ ret.err = "DuplicateKeyInFile" /\ ret.out.n = 2
    /\ ret.arg.text = << <<"a", "-", "b", "=", "1">>,
                         <<"A", "B", " ", "=", " ", "2", " ", "#", "c">> >>
    /\ hasKey(cmdVal, <<"A", "B">>)

(***************************************************************************)
(* The grammar of a line: a program that reads files with lines that       *)
(* deviate from  key = value  # comment.                                   *)
(***************************************************************************)

(* b=1   c   c d   c=   c=1 x *)
GrammarLines ==
    { <<"b", "=", "1">>,
      <<"c">>,
      <<"c", " ", "d">>,
      <<"c", "=">>,
      <<"c", "=", "1", " ", "x">> }

NextGrammar ==
    \E lines \in SeqsUpTo(GrammarLines, MaxFileLines), overwrite \in BOOLEAN :
        parseParameterFile(lines, overwrite)

SpecGrammar == Init /\ [][NextGrammar]_vars

(* what is left of a line after its key, after the equals sign and after the
   value, as the three tests of the line's form see it *)
afterKey(line) == removeLeadingSpace(parseKey(removeLeadingSpace(line)).s)

afterEquals(line) == removeLeadingSpace(substr(afterKey(line), 1))

afterValue(line) ==
    removeLeadingSpace(IF afterEquals(line)[1] = "\""
                       THEN parseQuotedValue(afterEquals(line)).s
                       ELSE parseUnquotedValue(afterEquals(line)).s)

(* key = value, optionally followed by a comment *)
WellFormed(line) ==
    /\ afterKey(line) # <<>> /\ afterKey(line)[1] = "="
    /\ afterEquals(line) # <<>> /\ afterEquals(line)[1] \notin {"#", ";"}
    /\ afterValue(line) = <<>> \/ afterValue(line)[1] \in {"#", ";"}

(* line n is the first line of the file that parsing cannot pass: it has a
   valid key of its own and not this form, and the lines before it are blank,
   comments or well-formed lines with other keys *)
FirstMalformed(lines, n) ==
    /\ ~skipped(lines[n]) /\ lineKey(lines[n]).err = "" /\ ~WellFormed(lines[n])
    /\ \A i \in 1..(n - 1) :
          \/ skipped(lines[i])
          \/ /\ lineKey(lines[i]).err = "" /\ WellFormed(lines[i])
             /\ lineKey(lines[i]) # lineKey(lines[n])
             /\ ~DupInFile(lines, i)

(* the store has no value for the key, or the value it had *)
keyUntouched(t, t2, k) == hasKey(t2, k) = hasKey(t, k) /\ (hasKey(t, k) => t2[k] = t[k])

(* C10, as claimed: parseParameterFile fails with a syntax error that carries
   the line number at every non-blank, non-comment line that is not of the
   form  key = value  with an optional comment, and writes no value for that
   line. *)
C10_MalformedLineAborts ==
    [][ ret'.op = "parseParameterFile" =>
          \A n \in 1..Len(ret'.arg.text) :
              FirstMalformed(ret'.arg.text, n) =>
                  /\ ret'.err = "SyntaxError" /\ ret'.out.n = n
                  /\ keyUntouched(tree, tree', lineKey(ret'.arg.text[n]).val)
      ]_vars

(* C10, weakened to any failure at the line: it does not hold either *)
C10_MalformedLineFails ==
    [][ ret'.op = "parseParameterFile" =>
          \A n \in 1..Len(ret'.arg.text) :
              FirstMalformed(ret'.arg.text, n) => ret'.err # "" /\ ret'.out.n = n
      ]_vars

(***************************************************************************)
(* The command line: a program that passes argument lists with accepted    *)
(* and rejected tokens, with and without a help preamble.                  *)
(***************************************************************************)

(* --a-b=7   --a_b=1   --a-=1   x   --a-b   -h *)
ArgTokens ==
    { <<"-", "-", "a", "-", "b", "=", "7">>,
      <<"-", "-", "a", "_", "b", "=", "1">>,
      <<"-", "-", "a", "-", "=", "1">>,
      <<"x">>,
      <<"-", "-", "a", "-", "b">>,
      HelpShort }

NextArgs ==
    \E args \in SeqsUpTo(ArgTokens, MaxIngestArgs), helpPreamble \in BOOLEAN :
        parseCommandLineOptions(args, helpPreamble)

SpecArgs == Init /\ [][NextArgs]_vars

(* the key of the argument is followed by an equals sign *)
argHasEquals(arg) ==
    parseKey(substr(arg, 2)).s # <<>> /\ parseKey(substr(arg, 2)).s[1] = "="

(* argument i is a token --name=value with a valid name that no earlier
   argument of the list has *)
accepted(args, i) ==
    named(args[i]) /\ argHasEquals(args[i]) /\ ~DupInArgs(args, i)

(* the call prints the help message and returns it *)
helpAsked == ret.arg.flag /\ helpScan(ret.arg.text, 1) # 0

(* what parseCommandLineOptions returns for a list: "" when every token is
   accepted, otherwise a message for the first token that is not *)
firstOffenderReported ==
    /\ ret.err = "" <=> \A i \in 1..Len(ret.arg.text) : accepted(ret.arg.text, i)
    /\ ret.err # "" =>
          /\ ret.out.n \in 1..Len(ret.arg.text)
          /\ ~accepted(ret.arg.text, ret.out.n)
          /\ \A i \in 1..(ret.out.n - 1) : accepted(ret.arg.text, i)

(* C11, as claimed: parseCommandLineOptions never ends with an exception; it
   returns "" when every token was accepted and otherwise the message of the
   first offending token, also for a token whose name violates the name
   syntax. *)
C11_RejectionsAreReturned ==
    (ret.op = "parseCommandLineOptions" /\ ~helpAsked) =>
        ~ret.out.flag /\ firstOffenderReported

(* C11 without its "never by raising a failure": the call ends at the first
   offending token, by a returned message or by an exception *)
C11_EndsAtFirstOffender ==
    (ret.op = "parseCommandLineOptions" /\ ~helpAsked) => firstOffenderReported

(* C12: reset() leaves the registry, the value store and the list of pending
   validators empty and registrationOpen true, whatever the state was; the
   Register and the endRegistration that follow it succeed; and no other
   operation turns registrationOpen from false to true. *)
C12_ResetReinitializes ==
    [][/\ ret'.op = "reset" =>
            /\ DOMAIN registry' = {} /\ DOMAIN tree' = {}
            /\ finalizers' = <<>> /\ registrationOpen'
       /\ (ret.op = "reset" /\ ret'.op = "Register") =>
            /\ ret'.err = ""
            /\ ret'.arg.p.name \in DOMAIN registry'
       /\ (ret.op = "reset" /\ ret'.op = "endRegistration") =>
            /\ ret'.err = "" /\ ~registrationOpen'
       /\ (~registrationOpen /\ registrationOpen') => ret'.op = "reset"]_vars

(* reset() has run *)
C12_Witness ==
    /\ ret.op = "reset" /\ registrationOpen
    /\ DOMAIN registry = {} /\ DOMAIN tree = {} /\ finalizers = <<>>

(***************************************************************************)
(* Validation: a program with an int and a bool parameter struct of one    *)
(* name, whose command line comes before or after endRegistration.         *)
(***************************************************************************)
ValidateParams == {ParamAB, ParamABbool}

(* --a-b=7   --a-b=x   --a-b=true *)
ValidateTokens ==
    { <<"-", "-", "a", "-", "b", "=", "7">>,
      <<"-", "-", "a", "-", "b", "=", "x">>,
      <<"-", "-", "a", "-", "b", "=", "t", "r", "u", "e">> }

NextValidate ==
    \/ \E p \in ValidateParams : Register(p, "u1")
    \/ endRegistration
    \/ \E p \in ValidateParams : Get(p, TRUE)
    \/ \E args \in SeqsUpTo(ValidateTokens, MaxArgs) : parseCommandLineOptions(args, FALSE)
    \/ reset

SpecValidate == Init /\ [][NextValidate]_vars

(* endRegistration has succeeded: registration is closed and no validator is
   left *)
validated == ~registrationOpen /\ finalizers = <<>>

(* C13, as claimed: once endRegistration has succeeded, Get<Param>(true) of a
   registered parameter does not fail with a value-parse error, whatever was
   ingested before or after endRegistration. *)
C13_NoLateValueError ==
    (GotRegistered /\ validated) => ret.err # "ValueParseError"

(* C13, amended: ... unless an ingestion call has supplied the parameter's
   key after endRegistration. *)
C13_NoLateValueErrorUnlessLateIngestion ==
    (GotRegistered /\ validated /\ ret.arg.p.name \notin lateKeys)
        => ret.err # "ValueParseError"

(* a Get has returned the value that the command line supplied before
   endRegistration, after a later command line has supplied no key *)
C13_Witness ==
    /\ GotRegistered /\ validated /\ lateKeys = {}
    /\ hasKey(tree, ret.arg.p.name) /\ ret.err = ""
    /\ ret.arg.p.type = "int" /\ ret.out.val = IntV(7)

(* the registry has a numeric or boolean parameter whose stored text is not
   a value of its type *)
badValueRegistered ==
    \E name \in DOMAIN curDefault :
        /\ registry[name].paramTypeName \in {"int", "double", "bool"}
        /\ hasKey(tree, name)
        /\ TreeGet(registry[name].paramTypeName, tree[name]).err # ""

(* C14, as claimed: an endRegistration called with registration open fails
   with the value-parse error when the value store holds, for a registered
   numeric or boolean parameter, a text that is not a value of its type, and
   succeeds when no registered parameter has such a value. *)
C14_FailsExactlyOnBadValue ==
    [][ (registrationOpen /\ ret'.op = "endRegistration") =>
            /\ badValueRegistered => ret'.err = "ValueParseError"
            /\ ~badValueRegistered => ret'.err = ""
      ]_vars

(* the first half of C14: a bad value of a registered parameter makes
   endRegistration fail *)
C14_FailsOnBadValue ==
    [][ (registrationOpen /\ ret'.op = "endRegistration" /\ badValueRegistered)
            => ret'.err = "ValueParseError"
      ]_vars

(***************************************************************************)
(* Reports: a program that registers two of the three parameters its       *)
(* command line names, and asks for the used and the unused ones.          *)
(***************************************************************************)
ListParams == {ParamAB, ParamC}

(* --a-b=7   --c=y   --z=1 *)
ListTokens ==
    { <<"-", "-", "a", "-", "b", "=", "7">>,
      <<"-", "-", "c", "=", "y">>,
      <<"-", "-", "z", "=", "1">> }

NextLists ==
    \/ \E p \in ListParams : Register(p, "u1")
    \/ endRegistration
    \/ \E args \in SeqsUpTo(ListTokens, MaxIngestArgs) : parseCommandLineOptions(args, FALSE)
    \/ getLists
    \/ printUnused

SpecLists == Init /\ [][NextLists]_vars

(* the entries of a list, and that no key is in it twice *)
entriesOf(list) == {list[i] : i \in 1..Len(list)}

oncePerKey(list) == \A i, j \in 1..Len(list) : list[i][1] = list[j][1] => i = j

(* the store's entries whose key is not in the registry, and those whose key is *)
unregisteredEntries == {<<k, tree[k]>> : k \in DOMAIN tree \ DOMAIN registry}

registeredEntries == {<<k, tree[k]>> : k \in DOMAIN tree \cap DOMAIN registry}

(* C15: printUnused returns true exactly when some key of the value store is
   not in the registry, and then lists exactly those keys, each once, with
   their stored values; it returns false and writes nothing when every key is
   registered or the store is empty. *)
C15_PrintUnused ==
    ret.op = "printUnused" =>
        /\ ret.err = ""
        /\ ret.out.flag <=> unregisteredEntries # {}
        /\ entriesOf(ret.out.unused) = unregisteredEntries
        /\ oncePerKey(ret.out.unused)
        /\ ~ret.out.flag => ret.out.unused = <<>>

(* printUnused has listed one key of a store that also has a registered key *)
C15_Witness ==
    /\ ret.op = "printUnused" /\ ret.out.flag
    /\ ret.out.unused = << <<(<<"Z">>), (<<"1">>)>> >>
    /\ hasKey(tree, <<"A", "B">>) /\ isRegistered(<<"A", "B">>)

(* C16: with registration closed, getLists returns every key of the value
   store exactly once, with its stored text, in usedParams when the key is in
   the registry and in unusedParams when it is not; and every key that
   ingestion has accepted is in the value store. *)
C16_GetListsPartition ==
    /\ (ret.op = "getLists" /\ ~registrationOpen) =>
          /\ ret.err = ""
          /\ entriesOf(ret.out.used) = registeredEntries
          /\ entriesOf(ret.out.unused) = unregisteredEntries
          /\ oncePerKey(ret.out.used \o ret.out.unused)
    /\ DOMAIN cmdVal \cup fileKeys \subseteq DOMAIN tree

(* getLists has returned a used and an unused entry *)
C16_Witness ==
    /\ ret.op = "getLists" /\ ret.err = ""
    /\ ret.out.used = << <<(<<"A", "B">>), (<<"7">>)>> >>
    /\ ret.out.unused = << <<(<<"Z">>), (<<"1">>)>> >>

(***************************************************************************)
(* Pure functions are applied to inputs that the initial state draws from  *)
(* a bounded set: the input is ret.arg of the "start" record.              *)
(***************************************************************************)
InitWith(arg) ==
    /\ registry = [n \in {} |-> <<>>]
    /\ tree = EmptyTree
    /\ finalizers = <<>>
    /\ registrationOpen = TRUE
    /\ ret = Returned("start", arg, "", NoOut)
    /\ cmdVal = EmptyTree
    /\ fileKeys = {}
    /\ fileAfterCmd = EmptyTree
    /\ curDefault = [n \in {} |-> IntV(0)]
    /\ lateKeys = {}

(* the non-empty texts over an alphabet, up to a length *)
TextsUpTo(alphabet, n) == UNION {[1..k -> alphabet] : k \in 1..n}

(***************************************************************************)
(* The option name that printParamUsage prints for a parameter, and the    *)
(* key that the name transformer makes of it.                              *)
(***************************************************************************)
MaxNameLen == 3

NameChars == {"a", "B", "C", "1"}

(* letters and digits only, first character a letter *)
Names == {n \in TextsUpTo(NameChars, MaxNameLen) : isalpha(n[1])}

cmdLineName_Lowercased(camelCaseName, i, cmdLineName) ==
    cmdLineName \o LowerText(camelCaseName)

(* the loop that converts the CamelCase name, from character i (1-based) on *)
RECURSIVE cmdLineNameLoop(_, _, _)
cmdLineNameLoop(camelCaseName, i, cmdLineName) ==
    IF i > Len(camelCaseName) THEN cmdLineName
    ELSE cmdLineNameLoop(camelCaseName, i + 1,
            (IF isupper(camelCaseName[i]) THEN Append(cmdLineName, "-") ELSE cmdLineName)
                \o <<tolower(camelCaseName[i])>>)

RECURSIVE withoutLeadingDashes(_)
withoutLeadingDashes(s) ==
    IF s # <<>> /\ s[1] = "-" THEN withoutLeadingDashes(Tail(s)) ELSE s

(* printParamUsage of a parameter with the name of the input: the printed
   option name *)
printParamUsage ==
    /\ ret.op = "start"
    /\ ret' = Returned("printParamUsage", ret.arg, "",
                 [NoOut EXCEPT !.val = StrV(cmdLineNameLoop(ret.arg.p.name, 1, <<"-">>))])
    /\ UNCHANGED <<storage, history>>

(* transformKey(s, true) of the printed option name without its dashes *)
transformPrintedName ==
    /\ ret.op = "printParamUsage"
    /\ \E tk \in {transformKey(withoutLeadingDashes(ret.out.val.s), TRUE)} :
          ret' = Returned("transformKey",
                    [ret.arg EXCEPT !.text = withoutLeadingDashes(ret.out.val.s)],
                    tk.err, [NoOut EXCEPT !.val = StrV(tk.val)])
    /\ UNCHANGED <<storage, history>>

InitKebab == \E n \in Names : InitWith([NoArg EXCEPT !.p = [NoParam EXCEPT !.name = n]])

NextKebab == printParamUsage \/ transformPrintedName

SpecKebab == InitKebab /\ [][NextKebab]_vars

(* C17, as claimed: for every name of letters and digits that starts with a
   letter, transformKey(., true) of the printed option name, without its
   leading dashes, is the name. *)
C17_KebabRoundTrip ==
    ret.op = "transformKey" =>
        ret.err = "" /\ ret.out.val.s = ret.arg.p.name

(* C17, amended: ... for every such name that starts with an uppercase
   letter. *)
C17_KebabRoundTripOfCapitalized ==
    (ret.op = "transformKey" /\ isupper(ret.arg.p.name[1])) =>
        ret.err = "" /\ ret.out.val.s = ret.arg.p.name

(* the name BaC has been printed as --ba-c and transformed back *)
C17_Witness ==
    /\ ret.op = "transformKey" /\ ret.arg.p.name = <<"B", "a", "C">>
    /\ ret.arg.text = <<"b", "a", "-", "c">>
    /\ ret.out.val.s = <<"B", "a", "C">>

(***************************************************************************)
(* Quoted values: parseQuotedValue applied to the texts that start with a  *)
(* double quote.                                                           *)
(***************************************************************************)
MaxQuotedLen == 4

(* the double quote, the backslash, n and x *)
QuotedChars == {"\"", "\\", "n", "x"}

QuotedInputs == {t \in TextsUpTo(QuotedChars, MaxQuotedLen) : t[1] = "\""}

(* parseQuotedValue(s, errorPrefix): val.s is the returned string, rest is s
   after the call *)
parseQuotedValueCall ==
    /\ ret.op = "start"
    /\ \E r \in {parseQuotedValue(ret.arg.text)} :
          ret' = Returned("parseQuotedValue", ret.arg, r.err,
                    [NoOut EXCEPT !.val = StrV(r.ret), !.rest = r.s])
    /\ UNCHANGED <<storage, history>>

InitQuoted == \E t \in QuotedInputs : InitWith([NoArg EXCEPT !.text = t])

NextQuoted == parseQuotedValueCall

SpecQuoted == InitQuoted /\ [][NextQuoted]_vars

(* the characters that the escape sequences denote *)
Denoted(c) ==
    CASE c = "n" -> "\n" [] c = "r" -> "\r" [] c = "t" -> "\t"
      [] c = "\"" -> "\"" [] c = "\\" -> "\\"

(* reading a quoted text from position i (1-based) on: how the reading ends
   ("quote": at the first unescaped quote, "escape": at a backslash sequence
   that denotes nothing, "none": at the end of the text), where, and the
   characters read *)
RECURSIVE readQuoted(_, _, _)
readQuoted(s, i, acc) ==
    IF i > Len(s) THEN [end |-> "none", at |-> i, text |-> acc]
    ELSE IF s[i] = "\"" THEN [end |-> "quote", at |-> i, text |-> acc]
    ELSE IF s[i] # "\\" THEN readQuoted(s, i + 1, Append(acc, s[i]))
    ELSE IF i = Len(s) THEN [end |-> "none", at |-> i, text |-> acc]
    ELSE IF s[i + 1] \in {"n", "r", "t", "\"", "\\"}
    THEN readQuoted(s, i + 2, Append(acc, Denoted(s[i + 1])))
    ELSE [end |-> "escape", at |-> i, text |-> acc]

(* what C18 says of the call on an input whose reading is rd; the code's
   message for a string that ends early is "Unexpected end of quoted
   string" *)
quotedAsRead(rd) ==
    CASE rd.end = "quote" ->
            /\ ret.err = ""
            /\ ret.out.val.s = rd.text
            /\ ret.out.rest = substr(ret.arg.text, rd.at)
      [] rd.end = "escape" -> ret.err = "UnknownEscape"
      [] rd.end = "none" -> ret.err = "UnexpectedEnd"

(* C18, as claimed: on an input that starts with a double quote,
   parseQuotedValue returns the characters up to the first unescaped quote
   with the five escape sequences replaced, and leaves the text after that
   quote; it fails with UnknownEscape at any other backslash sequence, and
   with the unterminated-string error when the input has no closing
   unescaped quote. *)
C18_QuotedValue ==
    ret.op = "parseQuotedValue" => quotedAsRead(readQuoted(ret.arg.text, 2, <<>>))

(* C18 without the kind of the failure of an unterminated input: such an
   input fails, with one error or another *)
C18_QuotedValueOrFailure ==
    ret.op = "parseQuotedValue" =>
        IF readQuoted(ret.arg.text, 2, <<>>).end = "none"
        THEN ret.err # ""
        ELSE quotedAsRead(readQuoted(ret.arg.text, 2, <<>>))

(***************************************************************************)
(* breakLines.  Positions are 0-based as in the code; v is the record of   *)
(* the local variables result, startInPos, inPos, lastBreakPos and ttyPos. *)
(***************************************************************************)
Spaces(n) == [i \in 1..n |-> " "]

(* a newline whose line is written without the newline itself *)
atNewline_WithoutNewline(msg, v) ==
    [result |-> v.result \o substrN(msg, v.startInPos, v.inPos - v.startInPos),
     startInPos |-> v.inPos + 1,
     inPos |-> v.inPos,
     lastBreakPos |-> v.inPos + 2,
     ttyPos |-> -1]

(* the branch of the loop body for a newline, before ++inPos, ++ttyPos *)
atNewline(msg, v) ==
    [result |-> v.result \o substrN(msg, v.startInPos, v.inPos - v.startInPos + 1),
     startInPos |-> v.inPos + 1,
     inPos |-> v.inPos,
     lastBreakPos |-> v.inPos + 2,
     ttyPos |-> -1]

(* the branch for ttyPos >= maxWidth: break at the last break position, or
   right before the current character when there is none *)
atFullLine(msg, indentWidth, v) ==
    IF v.lastBreakPos > v.startInPos
    THEN [result |-> v.result
                       \o substrN(msg, v.startInPos, v.lastBreakPos - v.startInPos)
                       \o <<"\n">> \o Spaces(indentWidth),
          startInPos |-> v.lastBreakPos + 1,
          inPos |-> v.lastBreakPos + 1,
          lastBreakPos |-> v.lastBreakPos + 1,
          ttyPos |-> indentWidth]
    ELSE [result |-> v.result
                       \o substrN(msg, v.startInPos, v.inPos - v.startInPos)
                       \o <<"\n">> \o Spaces(indentWidth),
          startInPos |-> v.inPos,
          inPos |-> v.inPos,
          lastBreakPos |-> v.inPos,
          ttyPos |-> indentWidth]

(* if (std::isspace(msg[inPos])) lastBreakPos = inPos *)
noteSpace(msg, v) ==
    IF isspace(msg[v.inPos + 1]) THEN [v EXCEPT !.lastBreakPos = v.inPos] ELSE v

(* the loop body *)
breakBody(msg, indentWidth, maxWidth, v) ==
    IF msg[v.inPos + 1] = "\n" THEN atNewline(msg, v)
    ELSE IF v.ttyPos >= maxWidth THEN atFullLine(msg, indentWidth, noteSpace(msg, v))
    ELSE noteSpace(msg, v)

(* ++inPos, ++ttyPos *)
advance(v) == [v EXCEPT !.inPos = v.inPos + 1, !.ttyPos = v.ttyPos + 1]

RECURSIVE breakLoop(_, _, _, _)
breakLoop(msg, indentWidth, maxWidth, v) ==
    IF v.inPos >= Len(msg)
    THEN v.result \o substr(msg, v.startInPos)
    ELSE breakLoop(msg, indentWidth, maxWidth,
                   advance(breakBody(msg, indentWidth, maxWidth, v)))

breakLines(msg, indentWidth, maxWidth) ==
    breakLoop(msg, indentWidth, maxWidth,
              [result |-> <<>>, startInPos |-> 0, inPos |-> 0,
               lastBreakPos |-> 0, ttyPos |-> 0])

(* breakLines(msg, indentWidth, maxWidth) of the input: val.s is the result *)
breakLinesCall ==
    /\ ret.op = "start"
    /\ ret' = Returned("breakLines", ret.arg, "",
                 [NoOut EXCEPT !.val = StrV(breakLines(ret.arg.text, ret.arg.indentWidth,
                                                       ret.arg.maxWidth))])
    /\ UNCHANGED <<storage, history>>

MaxMsgLen == 5

MaxWidth == 3

(* a letter, the blank and the newline *)
MsgChars == {"a", " ", "\n"}

InitBreak ==
    \E msg \in TextsUpTo(MsgChars, MaxMsgLen), maxWidth \in 1..MaxWidth :
        \E indentWidth \in 0..(maxWidth - 1) :
            InitWith([NoArg EXCEPT !.text = msg, !.indentWidth = indentWidth,
                                   !.maxWidth = maxWidth])

NextBreak == breakLinesCall

SpecBreak == InitBreak /\ [][NextBreak]_vars

(* the lines of a text: the parts between its newlines *)
RECURSIVE linesOf(_, _)
linesOf(t, cur) ==
    IF t = <<>> THEN {cur}
    ELSE IF Head(t) = "\n" THEN {cur} \cup linesOf(Tail(t), <<>>)
    ELSE linesOf(Tail(t), Append(cur, Head(t)))

(* out begins with a line break and the indentation of a continuation line *)
beginsWithBreak(out, indentWidth) ==
    /\ Len(out) >= 1 + indentWidth
    /\ SubSeq(out, 1, 1 + indentWidth) = <<"\n">> \o Spaces(indentWidth)

(* out is msg with line breaks inserted and characters other than newlines
   left out: every newline of msg is in out, after what is left of the text
   before it and before what is left of the text after it *)
RECURSIVE keepsNewlines(_, _, _)
keepsNewlines(msg, out, indentWidth) ==
    \/ msg = <<>> /\ out = <<>>
    \/ /\ msg # <<>> /\ out # <<>> /\ Head(msg) = Head(out)
       /\ keepsNewlines(Tail(msg), Tail(out), indentWidth)
    \/ /\ beginsWithBreak(out, indentWidth)
       /\ keepsNewlines(msg, SubSeq(out, 2 + indentWidth, Len(out)), indentWidth)
    \/ /\ msg # <<>> /\ Head(msg) # "\n"
       /\ keepsNewlines(Tail(msg), out, indentWidth)

(* the number of newlines of a text *)
newlines(t) == Len(SelectSeq(t, LAMBDA c : c = "\n"))

(* C19: for 0 <= indentWidth < maxWidth, no line of the text breakLines
   returns is longer than maxWidth columns (with a blank to break at in the
   span, and without one as well, since the line is then cut inside the
   token), and every newline of the message is in the result, in the order
   of the message, between what the result keeps of the text before it and
   of the text after it. *)
C19_BreakLines ==
    ret.op = "breakLines" =>
        /\ \A l \in linesOf(ret.out.val.s, <<>>) : Len(l) <= ret.arg.maxWidth
        /\ keepsNewlines(ret.arg.text, ret.out.val.s, ret.arg.indentWidth)

(* a message with a newline of its own and a blank, broken once more at
   the blank *)
C19_Witness ==
    /\ ret.op = "breakLines"
    /\ ret.arg.text = <<"a", "\n", "a", " ", "a">>
    /\ ret.arg.maxWidth = 2
    /\ ret.arg.indentWidth = 1
    /\ newlines(ret.out.val.s) = 2

(* the validators of the list registered under a name *)
validatorsOf(name) == {i \in 1..Len(finalizers) : finalizers[i].name = name}

(* C20: while registration is open the list of pending validators holds
   exactly one validator per entry of the registry, of the type of the
   entry, after any sequence of Register calls, repeated identical ones and
   rejected conflicting ones included. *)
C20_OneValidatorPerEntry ==
    registrationOpen =>
        /\ Len(finalizers) = Cardinality(DOMAIN registry)
        /\ \A name \in DOMAIN registry :
               /\ Cardinality(validatorsOf(name)) = 1
               /\ \A i \in validatorsOf(name) :
                      finalizers[i].type = registry[name].paramTypeName

(* what is left of C20: every entry of the registry has a validator of its
   type, and every validator names an entry of the registry *)
C20_AValidatorPerEntry ==
    registrationOpen =>
        /\ \A name \in DOMAIN registry :
               \E i \in validatorsOf(name) :
                   finalizers[i].type = registry[name].paramTypeName
        /\ \A i \in 1..Len(finalizers) : finalizers[i].name \in DOMAIN registry

(***************************************************************************)
(* Frames: a program with two parameters that calls every operation of the *)
(* parameter system, with either value of errorIfNotRegistered.            *)
(***************************************************************************)
FrameParams == {ParamAB, ParamC}

(* --a-b=7 *)
FrameTokens == { <<"-", "-", "a", "-", "b", "=", "7">> }

(* c=3 *)
FrameLines == { <<"c", "=", "3">> }

NextFrame ==
    \/ \E p \in FrameParams : Register(p, "u1")
    \/ \E p \in FrameParams : Hide(p)
    \/ \E p \in FrameParams : SetDefault(p, NewValue(p))
    \/ endRegistration
    \/ reset
    \/ \E p \in FrameParams, e \in BOOLEAN : Get(p, e)
    \/ \E p \in FrameParams, e \in BOOLEAN : IsSet(p, e)
    \/ getLists
    \/ \E args \in SeqsUpTo(FrameTokens, MaxArgs) : parseCommandLineOptions(args, FALSE)
    \/ \E lines \in SeqsUpTo(FrameLines, MaxFileLines) : parseParameterFile(lines, FALSE)

SpecFrame == Init /\ [][NextFrame]_vars

(* the operations that do not ingest *)
NotIngesting == {"Register", "Hide", "SetDefault", "endRegistration", "Get", "IsSet", "getLists"}

(* the keys that a command line or a parameter file has supplied since the
   last reset *)
suppliedKeys == DOMAIN cmdVal \cup fileKeys

(* C21: Register, Hide, SetDefault, endRegistration, Get, IsSet and getLists
   leave the value store as it is, the value store holds only keys that
   parseCommandLineOptions or parseParameterFile has supplied since the last
   reset, and IsSet<Param> is false for a parameter that neither has
   supplied, whatever its compiled or SetDefault default. *)
C21_StoreHoldsSuppliedOnly ==
    [][ /\ ret'.op \in NotIngesting => tree' = tree
        /\ DOMAIN tree' \subseteq suppliedKeys'
        /\ (ret'.op = "IsSet" /\ ret'.err = "" /\ ret'.arg.p.name \notin suppliedKeys')
              => ~ret'.out.flag
      ]_vars

(* IsSet of a registered parameter whose default SetDefault has changed and
   that no input names, while the store holds another key *)
C21_Witness ==
    /\ ret.op = "IsSet" /\ ret.err = "" /\ ret.arg.e /\ ~ret.out.flag
    /\ ret.arg.p.name \in DOMAIN curDefault
    /\ curDefault[ret.arg.p.name] # ret.arg.p.value
    /\ DOMAIN tree # {}

(***************************************************************************)
(* Help: command lines with the three help tokens among accepted and       *)
(* rejected ones, with and without a help preamble.                        *)
(***************************************************************************)

(* -h   --help   --help-all   --a-b=7   --a-=1 *)
HelpTokens ==
    { HelpShort, HelpLong, HelpAll,
      <<"-", "-", "a", "-", "b", "=", "7">>,
      <<"-", "-", "a", "-", "=", "1">> }

NextHelp ==
    \E args \in SeqsUpTo(HelpTokens, MaxIngestArgs), helpPreamble \in BOOLEAN :
        parseCommandLineOptions(args, helpPreamble)

SpecHelp == Init /\ [][NextHelp]_vars

(* the arguments of a list that are -h, --help or --help-all *)
helpArgs(args) == {i \in 1..Len(args) : args[i] \in {HelpShort, HelpLong, HelpAll}}

(* C22: with a non-empty helpPreamble and an argument that is -h, --help or
   --help-all, wherever it stands and whatever the other arguments are,
   parseCommandLineOptions returns the help message and leaves the value
   store unchanged; with an empty helpPreamble it never returns the help
   message, and the help token is an argument like any other, which the
   second loop rejects when it comes to it. *)
C22_HelpIntercepted ==
    [][ ret'.op = "parseCommandLineOptions" =>
          /\ (ret'.arg.flag /\ helpArgs(ret'.arg.text) # {}) =>
                /\ ret'.err = "HelpCalled" /\ ~ret'.out.flag
                /\ tree' = tree
          /\ ~ret'.arg.flag =>
                /\ ret'.err # "HelpCalled"
                /\ \A i \in helpArgs(ret'.arg.text) :
                      ret'.err # "" /\ ret'.out.n \in 1..i
      ]_vars

(* help asked for after an argument with an invalid name, the value store
   holding a value of an earlier call *)
C22_Witness ==
    /\ ret.op = "parseCommandLineOptions" /\ ret.arg.flag
    /\ ret.err = "HelpCalled"
    /\ Len(ret.arg.text) = 2
    /\ ret.arg.text[1] = <<"-", "-", "a", "-", "=", "1">>
    /\ ret.arg.text[2] = HelpAll
    /\ DOMAIN tree # {}

(***************************************************************************)
(* Usage: a program that registers and hides parameters and prints the     *)
(* usage message.                                                          *)
(***************************************************************************)

(* the iteration over the registry: every name once, in one fixed order *)
RECURSIVE inKeyOrder(_)
inKeyOrder(names) ==
    IF names = {} THEN <<>>
    ELSE <<CHOOSE k \in names : TRUE>> \o inKeyOrder(names \ {CHOOSE k \in names : TRUE})

(* a usage message with every parameter *)
listedInUsage_All(paramInfo, showAll) == TRUE

(* the test of the loop of printUsage *)
listedInUsage(paramInfo, showAll) == showAll \/ ~paramInfo.isHidden

(* the registry entries that printUsage hands to printParamUsage, each with
   the option name that is printed for it *)
usageLines(showAll) ==
    LET keys == SelectSeq(inKeyOrder(DOMAIN registry),
                          LAMBDA k : listedInUsage(registry[k], showAll))
    IN  [i \in 1..Len(keys) |->
            <<keys[i], cmdLineNameLoop(registry[keys[i]].paramName, 1, <<"-">>)>>]

(* printUsage(helpPreamble, "", os, showAll): n is the number of lines for
   the help options, lines the lines for the parameters *)
printUsage(helpPreamble, showAll) ==
    /\ ret' = Returned("printUsage", [NoArg EXCEPT !.flag = helpPreamble, !.e = showAll], "",
                 [NoOut EXCEPT !.n = IF helpPreamble THEN 2 ELSE 0,
                               !.lines = usageLines(showAll)])
    /\ UNCHANGED <<storage, history>>

NextUsage ==
    \/ \E p \in FrameParams : Register(p, "u1")
    \/ \E p \in FrameParams : Hide(p)
    \/ endRegistration
    \/ \E p \in FrameParams : Get(p, FALSE)
    \/ \E helpPreamble \in BOOLEAN, showAll \in BOOLEAN : printUsage(helpPreamble, showAll)

SpecUsage == Init /\ [][NextUsage]_vars

(* the names of the lines of a usage message *)
listedNames(lines) == {lines[i][1] : i \in 1..Len(lines)}

(* C23: Hide<Param> of a parameter that has an entry in the registry, while
   registration is open, succeeds, sets isHidden of that entry and changes
   nothing else; Hide of a parameter without an entry fails, with
   UnknownParameter while registration is open, and adds no entry;
   printUsage lists, once each, the entries that are not hidden when showAll
   is false and all entries when it is true. *)
C23_HideAndUsage ==
    [][ /\ ret'.op = "Hide" =>
              LET name == ret'.arg.p.name
              IN  /\ (registrationOpen /\ name \in DOMAIN registry) =>
                        /\ ret'.err = ""
                        /\ registry' = [registry EXCEPT ![name].isHidden = TRUE]
                  /\ name \notin DOMAIN registry =>
                        /\ ret'.err # ""
                        /\ registrationOpen => ret'.err = "UnknownParameter"
                        /\ registry' = registry
                  /\ UNCHANGED <<tree, finalizers, registrationOpen>>
        /\ ret'.op = "printUsage" =>
              /\ listedNames(ret'.out.lines) =
                    {n \in DOMAIN registry : ret'.arg.e \/ ~registry[n].isHidden}
              /\ Len(ret'.out.lines) = Cardinality(listedNames(ret'.out.lines))
              /\ UNCHANGED storage
      ]_vars

(* a usage message without showAll, for a registry with a hidden parameter
   and one that is not *)
C23_Witness ==
    /\ ret.op = "printUsage" /\ ~ret.arg.e
    /\ Len(ret.out.lines) = 1
    /\ Cardinality(DOMAIN registry) = 2
    /\ \A n \in DOMAIN registry : registry[n].paramName = n

(* C24: an ingestion call that fails leaves the value store as it was before
   the call: when parseParameterFile fails at a line, or
   parseCommandLineOptions returns an error for an argument (or ends with an
   exception at it), none of the earlier lines or arguments of the call has
   been written. *)
C24_FailedIngestionWritesNothing ==
    [][ (ret'.op \in {"parseParameterFile", "parseCommandLineOptions"} /\ ret'.err # "")
            => tree' = tree
      ]_vars

(***************************************************************************)
(* Names: transformKey on every text of letters, digits, hyphens and       *)
(* underscores up to a length, the empty one included.                     *)
(***************************************************************************)
MaxKeyLen == 4

KeyChars == {"a", "B", "1", "-", "_"}

(* transformKey(s, capitalizeFirstLetter) of the input *)
transformKeyCall ==
    /\ ret.op = "start"
    /\ \E tk \in {transformKey(ret.arg.text, ret.arg.flag)} :
          ret' = Returned("transformKey", ret.arg, tk.err, [NoOut EXCEPT !.val = StrV(tk.val)])
    /\ UNCHANGED <<storage, history>>

InitKey ==
    \E s \in SeqsUpTo(KeyChars, MaxKeyLen), capitalizeFirstLetter \in BOOLEAN :
        InitWith([NoArg EXCEPT !.text = s, !.flag = capitalizeFirstLetter])

NextKey == transformKeyCall

SpecKey == InitKey /\ [][NextKey]_vars

(* a name as the claim describes it: not empty, a letter first, and every
   later character alphanumeric or a hyphen right before a letter *)
validName(s) ==
    /\ s # <<>>
    /\ isalpha(s[1])
    /\ \A i \in 2..Len(s) :
          \/ isalnum(s[i])
          \/ s[i] = "-" /\ i < Len(s) /\ isalpha(s[i + 1])

(* C25: transformKey succeeds exactly on the names that are not empty, start
   with a letter and in which every later character is alphanumeric or a
   hyphen right before a letter, and fails with InvalidName on all others;
   the result of a success has letters and digits only, so no hyphen, and
   starts with an uppercase letter when capitalizeFirst is true. *)
C25_TransformKey ==
    ret.op = "transformKey" =>
        /\ ret.err = "" <=> validName(ret.arg.text)
        /\ ret.err # "" => ret.err = "InvalidName"
        /\ ret.err = "" =>
              /\ ret.out.val.s # <<>>
              /\ \A i \in 1..Len(ret.out.val.s) :
                    isalnum(ret.out.val.s[i]) /\ ret.out.val.s[i] # "-"
              /\ ret.arg.flag => isupper(ret.out.val.s[1])

(* a-a1 with capitalizeFirst gives AA1 *)
C25_Witness ==
    /\ ret.op = "transformKey" /\ ret.err = "" /\ ret.arg.flag
    /\ ret.arg.text = <<"a", "-", "a", "1">>
    /\ ret.out.val.s = <<"A", "A", "1">>

(* C26: Get and IsSet, in every phase and with either value of
   errorIfNotRegistered, succeed or fail without changing the registry, the
   value store, the pending validators or registrationOpen; and while
   registration is closed no operation but reset changes the set of names
   of the registry. *)
C26_GetAndIsSetArePureReads ==
    [][ /\ ret'.op \in {"Get", "IsSet"} => UNCHANGED storage
        /\ (~registrationOpen /\ ret'.op # "reset") => DOMAIN registry' = DOMAIN registry
      ]_vars

(* what is left of C26: IsSet is a pure read, Get is one for a name that
   has an entry in the registry, and neither changes the value store, the
   pending validators or registrationOpen *)
C26_PureReadsOfRegisteredNames ==
    [][ ret'.op \in {"Get", "IsSet"} =>
          /\ UNCHANGED <<tree, finalizers, registrationOpen>>
          /\ (ret'.op = "IsSet" \/ ret'.arg.p.name \in DOMAIN registry) => registry' = registry
      ]_vars

(* C27: a Register, while registration is open, of a parameter whose entry
   has its name, type and usage string succeeds and leaves the registry as
   it is, whatever Hide<Param> and SetDefault<Param> have done to the entry
   since the first registration: the entry stays hidden and keeps the
   default of SetDefault, and the changed default is no conflict. *)
C27_ReRegistrationKeepsEntry ==
    [][ ( /\ ret'.op = "Register"
          /\ registrationOpen
          /\ ret'.arg.p.name \in DOMAIN registry
          /\ registry[ret'.arg.p.name].paramName = ret'.arg.p.name
          /\ registry[ret'.arg.p.name].paramTypeName = ret'.arg.p.type
          /\ registry[ret'.arg.p.name].usageString = ret'.arg.usage )
        => /\ ret'.err = ""
           /\ registry' = registry
      ]_vars

(* a Register that succeeded on an entry that Hide has hidden and whose
   default SetDefault has changed *)
C27_Witness ==
    /\ ret.op = "Register" /\ ret.err = ""
    /\ ret.arg.p.name \in DOMAIN registry
    /\ registry[ret.arg.p.name].isHidden
    /\ registry[ret.arg.p.name].defaultValue # Serialize(ret.arg.p.type, ret.arg.p.value)

(* out is msg with line breaks (a newline and indentWidth blanks) inserted,
   some of them in the place of one whitespace character of msg, and nothing
   else changed *)
RECURSIVE losesNoText(_, _, _)
losesNoText(msg, out, indentWidth) ==
    \/ msg = <<>> /\ out = <<>>
    \/ /\ msg # <<>> /\ out # <<>> /\ Head(msg) = Head(out)
       /\ losesNoText(Tail(msg), Tail(out), indentWidth)
    \/ /\ beginsWithBreak(out, indentWidth)
       /\ \/ losesNoText(msg, SubSeq(out, 2 + indentWidth, Len(out)), indentWidth)
          \/ /\ msg # <<>> /\ isspace(Head(msg))
             /\ losesNoText(Tail(msg), SubSeq(out, 2 + indentWidth, Len(out)), indentWidth)

(* C28: breakLines loses no text: for every message and maxWidth >= 1, the
   result without its inserted line breaks and their indentation is the
   message, but for the one whitespace character that each break at a
   whitespace takes; no other character is dropped, also not in a long token
   right after a newline of the message. *)
C28_BreakLinesLosesNoText ==
    ret.op = "breakLines" =>
        losesNoText(ret.arg.text, ret.out.val.s, ret.arg.indentWidth)

(* C28 for the messages without a newline of their own: there it holds *)
C28_LosesNoTextWithoutNewline ==
    (ret.op = "breakLines" /\ newlines(ret.arg.text) = 0) =>
        losesNoText(ret.arg.text, ret.out.val.s, ret.arg.indentWidth)

====
